---------------------------- MODULE Spec2Model ----------------------------
(***************************************************************************)
(* Verification model of the generated C units of 1im_pl                   *)
(* (src/examples/codegen and src/bench/codegen).  Every unit is a separate *)
(* program with its own main(); each gets its own specification over its   *)
(* own variables, the variables of the other units staying at their        *)
(* initial values:                                                         *)
(*   SpecGcd    gcd.c                                                      *)
(*   SpecUnits  the preamble and main() of all eleven units                *)
(*   SpecTry    try_catch.c, try_propagate.c                               *)
(*   SpecSlice  function_arrays.c                                          *)
(*   SpecPar    parallel.c, parallel_block_bench.c, toyhash_parallel.c     *)
(***************************************************************************)
EXTENDS Integers, Sequences, FiniteSets, TLC

VARIABLES
    \* gcd.c
    gpc, a, b, temp, a0, b0, gout,
    \* the scan of a unit's text
    uunit, upos, useen, ustmts,
    \* try_catch.c, try_propagate.c
    tunit, tpc, failRes, try0, try1, x, err, tout, tevals, ttests, treads,
    tokCalls,
    \* function_arrays.c
    smode, spc, mem, s, s2, sout, lastStore,
    \* parallel.c, parallel_block_bench.c, toyhash_parallel.c
    punit, omp, mpc, mk, i0, n, nums, team, par_threads, par_fns, tst, arg,
    fn, out, iterLog, createLog, joinLog, derefs, invoked

gcdVars  == <<gpc, a, b, temp, a0, b0, gout>>
unitVars == <<uunit, upos, useen, ustmts>>
tryVars  == <<tunit, tpc, failRes, try0, try1, x, err, tout, tevals, ttests,
              treads, tokCalls>>
sliceVars == <<smode, spc, mem, s, s2, sout, lastStore>>
parVars  == <<punit, omp, mpc, mk, i0, n, nums, team, par_threads, par_fns,
              tst, arg, fn, out, iterLog, createLog, joinLog, derefs,
              invoked>>
vars     == <<gcdVars, unitVars, tryVars, sliceVars, parVars>>

\* what an action of one unit leaves alone: the variables of the others
notGcd   == <<unitVars, tryVars, sliceVars, parVars>>
notUnit  == <<gcdVars, tryVars, sliceVars, parVars>>
notTry   == <<gcdVars, unitVars, sliceVars, parVars>>
notSlice == <<gcdVars, unitVars, tryVars, parVars>>
notPar   == <<gcdVars, unitVars, tryVars, sliceVars>>

(***************************************************************************)
(* Bounds of the model.                                                    *)
(***************************************************************************)
\* gcd.c is also run from every starting pair in 0..MaxGcd x 0..MaxGcd
MaxGcd == 12
\* the success values a callee of a try site returns: -MaxVal..MaxVal
MaxVal == 4
\* the values stored through a slice: 0..MaxStore
MaxStore == 1
\* the threads of the team an OpenMP build runs the annotated loop with
OmpTeam == 2

(***************************************************************************)
(* Initial values of the variables of a unit that is not running.          *)
(***************************************************************************)
GcdIdle  == gpc = "idle" /\ a = 0 /\ b = 0 /\ temp = 0 /\ a0 = 0 /\ b0 = 0
            /\ gout = <<>>
UnitIdle == uunit = "none" /\ upos = 0 /\ useen = {} /\ ustmts = {}
TryIdle  == tunit = "none" /\ tpc = "idle" /\ failRes = "none"
            /\ try0 = "unset" /\ try1 = "unset" /\ x = <<>>
            /\ err = "unbound" /\ tout = <<>> /\ tevals = <<>>
            /\ ttests = <<>> /\ treads = {} /\ tokCalls = 0
SliceIdle == smode = "none" /\ spc = "idle" /\ mem = <<>> /\ s = "unset"
             /\ s2 = "unset" /\ sout = <<>> /\ lastStore = [via |-> "none"]
ParIdle  == punit = "none" /\ omp = FALSE /\ mpc = "idle" /\ mk = 0 /\ i0 = 0
            /\ n = 0 /\ nums = <<>> /\ team = <<>> /\ par_threads = <<>>
            /\ par_fns = <<>> /\ tst = <<>> /\ arg = <<>> /\ fn = <<>>
            /\ out = <<>> /\ iterLog = <<>> /\ createLog = <<>>
            /\ joinLog = <<>> /\ derefs = {} /\ invoked = {}

\* every unit but `unit` is idle
IdleBut(unit) ==
    /\ IF unit = "gcd" THEN TRUE ELSE GcdIdle
    /\ IF unit = "unit" THEN TRUE ELSE UnitIdle
    /\ IF unit = "try" THEN TRUE ELSE TryIdle
    /\ IF unit = "slice" THEN TRUE ELSE SliceIdle
    /\ IF unit = "par" THEN TRUE ELSE ParIdle

(***************************************************************************)
(* gcd.c                                                                   *)
(***************************************************************************)
\* C's % on int32_t: the quotient truncates toward zero, so the remainder
\* has the sign of the dividend (num % den, den /= 0).
CRem(num, den) ==
    LET aden == IF den < 0 THEN -den ELSE den
    IN  IF num >= 0 THEN num % aden ELSE -((-num) % aden)

\* the starting pair of gcd.c, lines 11-12
GcdA == 48
GcdB == 18

\* int32_t a = ...; int32_t b = ...;  (the pair of the source, or any pair
\* of the bounded range)
GcdInit ==
    /\ \E p \in ((0..MaxGcd) \X (0..MaxGcd)) \cup {<<GcdA, GcdB>>} :
          /\ a = p[1] /\ b = p[2]
          /\ a0 = p[1] /\ b0 = p[2]
    /\ temp = 0
    /\ gpc = "while"
    /\ gout = <<>>
    /\ IdleBut("gcd")

\* while ((b != 0))
GcdWhile ==
    /\ gpc = "while"
    /\ gpc' = IF b # 0 THEN "L14" ELSE "L18"
    /\ UNCHANGED <<a, b, temp, a0, b0, gout, notGcd>>

\* int32_t temp = b;
GcdTemp ==
    /\ gpc = "L14"
    /\ temp' = b
    /\ gpc' = "L15"
    /\ UNCHANGED <<a, b, a0, b0, gout, notGcd>>

\* b = (a % b);
GcdMod ==
    /\ gpc = "L15"
    /\ b' = CRem(a, b)
    /\ gpc' = "L16"
    /\ UNCHANGED <<a, temp, a0, b0, gout, notGcd>>

\* a = b;  (the slip of dropping the temporary)
GcdAssignNoTemp ==
    /\ gpc = "L16"
    /\ a' = b
    /\ gpc' = "while"
    /\ UNCHANGED <<b, temp, a0, b0, gout, notGcd>>

\* a = temp;
GcdAssign ==
    /\ gpc = "L16"
    /\ a' = temp
    /\ gpc' = "while"
    /\ UNCHANGED <<b, temp, a0, b0, gout, notGcd>>

\* printf("%d\n", (int)a);
GcdPrint ==
    /\ gpc = "L18"
    /\ gout' = Append(gout, a)
    /\ gpc' = "L19"
    /\ UNCHANGED <<a, b, temp, a0, b0, notGcd>>

\* return 0;
GcdReturn ==
    /\ gpc = "L19"
    /\ gpc' = "done"
    /\ UNCHANGED <<a, b, temp, a0, b0, gout, notGcd>>

GcdNext ==
    \/ GcdWhile
    \/ GcdTemp
    \/ GcdMod
    \/ GcdAssign
    \/ GcdPrint
    \/ GcdReturn

\* a sequential program takes its next step whenever it has one
SpecGcd == GcdInit /\ [][GcdNext]_vars /\ WF_vars(GcdNext)

-----------------------------------------------------------------------------
\* The greatest common divisor, from its definition (0 for the pair 0, 0).
Max2(p, q) == IF p >= q THEN p ELSE q

CommonDivisors(p, q) == {d \in 1..Max2(p, q) : p % d = 0 /\ q % d = 0}

SetMax(S) == CHOOSE m \in S : \A e \in S : e <= m

Gcd(p, q) == IF p = 0 /\ q = 0 THEN 0 ELSE SetMax(CommonDivisors(p, q))

\* at the loop test the pair has the divisor of the starting pair
GcdLoopInv ==
    gpc = "while" => /\ a >= 0 /\ b >= 0
                     /\ Gcd(a, b) = Gcd(a0, b0)

\* at the exit of the loop b is 0 and a is the divisor; it is what is printed
GcdExit ==
    /\ gpc \in {"L18", "L19", "done"} => b = 0 /\ a = Gcd(a0, b0)
    /\ gpc \in {"L19", "done"} => gout = <<Gcd(a0, b0)>>
    /\ (gpc \in {"L19", "done"} /\ a0 = GcdA /\ b0 = GcdB) =>
           a = 6 /\ b = 0 /\ gout = <<6>>

\* an iteration makes b strictly smaller and keeps it non-negative
GcdDecreases == (gpc = "L15") => (b' < b /\ b' >= 0)

\* C7: started with a=48, b=18 the loop of gcd.c ends with b=0, a=6 and 6 is
\* printed; for every starting pair a >= 0, b >= 0 of the range b strictly
\* decreases and stays non-negative on every iteration, the loop terminates,
\* gcd(a,b) is the same at every loop test, and the final a is the greatest
\* common divisor of the starting pair.
C7_Gcd ==
    /\ [](GcdLoopInv /\ GcdExit)
    /\ [][GcdDecreases]_vars
    /\ <>(gpc = "done")

\* gcd.c itself has run to its end: 48, 18 gave 6
C7_Witness == gpc = "done" /\ a0 = GcdA /\ b0 = GcdB /\ a = 6 /\ gout = <<6>>

(***************************************************************************)
(* The text of the eleven units: the preamble of each and the statements   *)
(* of its main().                                                          *)
(***************************************************************************)
Units == {"for_array", "function_arrays", "gcd", "parallel", "prime",
          "try_catch", "try_propagate", "types", "parallel_block_bench",
          "parallel_block_seq_bench", "toyhash_parallel"}

\* lines 1-7 of every unit but types.c
PreambleFull ==
    <<"stdio.h", "stdint.h", "inttypes.h", "stdbool.h", "string.h",
      "stddef.h", "pthread.h">>

\* lines 1-5 of types.c
PreambleTypes ==
    <<"stdio.h", "stdint.h", "inttypes.h", "stdbool.h", "string.h">>

\* a preamble that left out the threading header
PreambleNoThreads(u) ==
    IF u = "types" THEN PreambleTypes
    ELSE SubSeq(PreambleFull, 1, 6)

\* the #include lines of unit u, in order
Preamble(u) ==
    IF u = "types" THEN PreambleTypes ELSE PreambleFull

Rep(count, kind) == [k \in 1..count |-> kind]

\* the statements of main() of unit u, in order, each by its kind
MainStmts(u) ==
    CASE u = "for_array" ->
           <<"decl", "for", "decl", "decl", "for", "return">>
      [] u = "function_arrays" ->
           <<"decl", "memcpy", "printf", "decl", "decl", "decl", "printf",
             "return">>
      [] u = "gcd" -> <<"decl", "decl", "while", "printf", "return">>
      [] u = "parallel" ->
           <<"decl", "omp_for", "decl", "decl">>
           \o Rep(2, "pthread_create") \o Rep(2, "pthread_join")
           \o <<"return">>
      [] u = "prime" -> <<"decl", "decl", "if", "printf", "return">>
      [] u = "try_catch" -> <<"try", "return">>
      [] u = "try_propagate" -> <<"try", "return">>
      [] u = "types" -> Rep(9, "decl") \o Rep(9, "printf") \o <<"return">>
      [] u \in {"parallel_block_bench", "toyhash_parallel"} ->
           <<"decl", "decl">>
           \o Rep(4, "pthread_create") \o Rep(4, "pthread_join")
           \o <<"return">>
      [] u = "parallel_block_seq_bench" -> Rep(4, "call") \o <<"return">>

UnitInit ==
    /\ uunit \in Units
    /\ upos = 0
    /\ useen = {}
    /\ ustmts = {}
    /\ IdleBut("unit")

\* read the next #include line of the unit
UnitInclude ==
    /\ uunit \in Units
    /\ upos < Len(Preamble(uunit))
    /\ useen' = useen \cup {Preamble(uunit)[upos + 1]}
    /\ upos' = upos + 1
    /\ UNCHANGED <<uunit, ustmts, notUnit>>

\* read the next statement of main()
UnitStmt ==
    /\ uunit \in Units
    /\ upos >= Len(Preamble(uunit))
    /\ upos < Len(Preamble(uunit)) + Len(MainStmts(uunit))
    /\ ustmts' = ustmts \cup {MainStmts(uunit)[upos + 1 - Len(Preamble(uunit))]}
    /\ upos' = upos + 1
    /\ UNCHANGED <<uunit, useen, notUnit>>

UnitNext ==
    \/ UnitInclude
    \/ UnitStmt

SpecUnits == UnitInit /\ [][UnitNext]_vars

-----------------------------------------------------------------------------
\* the whole unit has been read
UnitRead == uunit \in Units
            /\ upos = Len(Preamble(uunit)) + Len(MainStmts(uunit))

\* the unit holds a task-parallel block: a spawn and join sequence
HasParBlock == {"pthread_create", "pthread_join"} \subseteq ustmts

FiveHeaders == {"stdio.h", "stdint.h", "stdbool.h", "string.h", "stddef.h"}

\* C8 as stated: <pthread.h> is included exactly by the units that hold a
\* task-parallel block, and all five unconditional headers always are.
C8_Original ==
    UnitRead => /\ ("pthread.h" \in useen <=> HasParBlock)
                /\ FiveHeaders \subseteq useen

\* C8, amended: every unit includes <stdio.h>, <stdint.h>, <stdbool.h> and
\* <string.h>; every unit that holds a task-parallel block includes
\* <pthread.h>; every unit but types.c includes <stddef.h> and <pthread.h>,
\* whether or not it holds a task-parallel block, and types.c includes
\* neither.
C8_Headers ==
    UnitRead =>
        /\ {"stdio.h", "stdint.h", "stdbool.h", "string.h"} \subseteq useen
        /\ HasParBlock => "pthread.h" \in useen
        /\ uunit # "types" => {"stddef.h", "pthread.h"} \subseteq useen
        /\ uunit = "types" => useen \cap {"stddef.h", "pthread.h"} = {}

\* parallel.c has been read: it holds a task-parallel block and includes the
\* threading header and the four headers every unit includes
C8_Witness ==
    /\ UnitRead
    /\ uunit = "parallel"
    /\ HasParBlock
    /\ {"pthread.h", "stdio.h", "stdint.h", "stdbool.h", "string.h"}
           \subseteq useen


(***************************************************************************)
(* try_catch.c and try_propagate.c                                         *)
(***************************************************************************)
\* err_i32_str_ok: { .ok = true, .value = value, .err = NULL }
ErrI32StrOk(value) == [ok |-> TRUE, value |-> value, err |-> "NULL"]

\* err_i32_str_err: { .ok = false, .value = (int32_t){0}, .err = err }
ErrI32StrErr(e) == [ok |-> FALSE, value |-> 0, err |-> e]

\* a result variable before its initialisation; x, a local that is bound at
\* most once, is <<>> before and <<value>> after
Unset == [ok |-> FALSE, value |-> 0, err |-> "unset"]

\* fail(): return err_i32_str_err("boom");
Fail == ErrI32StrErr("boom")

\* the results a callee of a try site can return: the one fail() returns and,
\* for the claims about every result, every other one of the range
Errs == {"boom", "oops"}
Results == {Fail} \cup {ErrI32StrOk(v) : v \in (-MaxVal)..MaxVal}
                  \cup {ErrI32StrErr(e) : e \in Errs}

\* the try sites: __try0 of main in try_catch.c, __try0 of wrap and __try1
\* of main in try_propagate.c
Sites == {"catch_main", "wrap", "prop_main"}

SitesOf(u) == IF u = "try_catch" THEN {"catch_main"} ELSE {"wrap", "prop_main"}

\* a read of field f of result r at a site, with the discriminant r has then
ReadOf(site, f, r) == [site |-> site, field |-> f, ok |-> r.ok]

TryInit ==
    /\ tunit \in {"try_catch", "try_propagate"}
    /\ failRes \in Results
    /\ tpc = IF tunit = "try_catch" THEN "c21" ELSE "p29"
    /\ try0 = Unset /\ try1 = Unset
    /\ x = <<>> /\ err = "unbound"
    /\ tout = <<>>
    /\ tevals = [site \in Sites |-> 0]
    /\ ttests = [site \in Sites |-> 0]
    /\ treads = {}
    /\ tokCalls = 0
    /\ IdleBut("try")

\* try_catch.c 21: err_i32_str __try0 = fail();
CatchEval ==
    /\ tpc = "c21"
    /\ try0' = failRes
    /\ tevals' = [tevals EXCEPT !["catch_main"] = @ + 1]
    /\ tpc' = "c22"
    /\ UNCHANGED <<tunit, failRes, try1, x, err, tout, ttests, treads,
                   tokCalls, notTry>>

\* try_catch.c 22: if (!__try0.ok) {
CatchTest ==
    /\ tpc = "c22"
    /\ ttests' = [ttests EXCEPT !["catch_main"] = @ + 1]
    /\ tpc' = IF ~try0.ok THEN "c23" ELSE "c27"
    /\ UNCHANGED <<tunit, failRes, try0, try1, x, err, tout, tevals, treads,
                   tokCalls, notTry>>

\* try_catch.c 23: const char* err = __try0.err;
CatchBind ==
    /\ tpc = "c23"
    /\ err' = try0.err
    /\ treads' = treads \cup {ReadOf("catch_main", "err", try0)}
    /\ tpc' = "c24"
    /\ UNCHANGED <<tunit, failRes, try0, try1, x, tout, tevals, ttests,
                   tokCalls, notTry>>

\* try_catch.c 24: printf("%s\n", err);
CatchPrint ==
    /\ tpc = "c24"
    /\ tout' = Append(tout, err)
    /\ tpc' = "c27"
    /\ UNCHANGED <<tunit, failRes, try0, try1, x, err, tevals, ttests,
                   treads, tokCalls, notTry>>

\* try_catch.c 27: return 0;
CatchReturn ==
    /\ tpc = "c27"
    /\ tpc' = "done"
    /\ UNCHANGED <<tunit, failRes, try0, try1, x, err, tout, tevals, ttests,
                   treads, tokCalls, notTry>>

\* try_propagate.c 29: err_i32_str __try1 = wrap();  (the call)
MainCallWrap ==
    /\ tpc = "p29"
    /\ tevals' = [tevals EXCEPT !["prop_main"] = @ + 1]
    /\ tpc' = "w21"
    /\ UNCHANGED <<tunit, failRes, try0, try1, x, err, tout, ttests, treads,
                   tokCalls, notTry>>

\* try_propagate.c 21: err_i32_str __try0 = fail();
WrapEval ==
    /\ tpc = "w21"
    /\ try0' = failRes
    /\ tevals' = [tevals EXCEPT !["wrap"] = @ + 1]
    /\ tpc' = "w22"
    /\ UNCHANGED <<tunit, failRes, try1, x, err, tout, ttests, treads,
                   tokCalls, notTry>>

\* if (__try0.ok) return ...;  (the test inverted)
WrapTestInverted ==
    /\ tpc = "w22"
    /\ ttests' = [ttests EXCEPT !["wrap"] = @ + 1]
    /\ tpc' = IF try0.ok THEN "w22r" ELSE "w23"
    /\ UNCHANGED <<tunit, failRes, try0, try1, x, err, tout, tevals, treads,
                   tokCalls, notTry>>

\* try_propagate.c 22: if (!__try0.ok) ...
WrapTest ==
    /\ tpc = "w22"
    /\ ttests' = [ttests EXCEPT !["wrap"] = @ + 1]
    /\ tpc' = IF ~try0.ok THEN "w22r" ELSE "w23"
    /\ UNCHANGED <<tunit, failRes, try0, try1, x, err, tout, tevals, treads,
                   tokCalls, notTry>>

\* the error branch without its return: control falls to line 23
WrapPropagateFallsThrough ==
    /\ tpc = "w22r"
    /\ treads' = treads \cup {ReadOf("wrap", "err", try0)}
    /\ tpc' = "w23"
    /\ UNCHANGED <<tunit, failRes, try0, try1, x, err, tout, tevals, ttests,
                   tokCalls, notTry>>

\* try_propagate.c 22: ... return err_i32_str_err(__try0.err);
\* the returned result initialises __try1 of main (line 29)
WrapPropagate ==
    /\ tpc = "w22r"
    /\ treads' = treads \cup {ReadOf("wrap", "err", try0)}
    /\ try1' = ErrI32StrErr(try0.err)
    /\ tpc' = "p30"
    /\ UNCHANGED <<tunit, failRes, try0, x, err, tout, tevals, ttests,
                   tokCalls, notTry>>

\* try_propagate.c 23: int32_t x = __try0.value;
WrapBind ==
    /\ tpc = "w23"
    /\ x' = <<try0.value>>
    /\ treads' = treads \cup {ReadOf("wrap", "value", try0)}
    /\ tpc' = "w24"
    /\ UNCHANGED <<tunit, failRes, try0, try1, err, tout, tevals, ttests,
                   tokCalls, notTry>>

\* try_propagate.c 24: return err_i32_str_ok(x);
WrapReturnOk ==
    /\ tpc = "w24"
    /\ try1' = ErrI32StrOk(x[1])
    /\ tokCalls' = tokCalls + 1
    /\ tpc' = "p30"
    /\ UNCHANGED <<tunit, failRes, try0, x, err, tout, tevals, ttests,
                   treads, notTry>>

\* try_propagate.c 30: if (!__try1.ok) {
MainTest ==
    /\ tpc = "p30"
    /\ ttests' = [ttests EXCEPT !["prop_main"] = @ + 1]
    /\ tpc' = IF ~try1.ok THEN "p31" ELSE "p35"
    /\ UNCHANGED <<tunit, failRes, try0, try1, x, err, tout, tevals, treads,
                   tokCalls, notTry>>

\* try_propagate.c 31: const char* err = __try1.err;
MainBind ==
    /\ tpc = "p31"
    /\ err' = try1.err
    /\ treads' = treads \cup {ReadOf("prop_main", "err", try1)}
    /\ tpc' = "p32"
    /\ UNCHANGED <<tunit, failRes, try0, try1, x, tout, tevals, ttests,
                   tokCalls, notTry>>

\* try_propagate.c 32: printf("%s\n", err);
MainPrint ==
    /\ tpc = "p32"
    /\ tout' = Append(tout, err)
    /\ tpc' = "p35"
    /\ UNCHANGED <<tunit, failRes, try0, try1, x, err, tevals, ttests,
                   treads, tokCalls, notTry>>

\* try_propagate.c 35: return 0;
MainReturn ==
    /\ tpc = "p35"
    /\ tpc' = "done"
    /\ UNCHANGED <<tunit, failRes, try0, try1, x, err, tout, tevals, ttests,
                   treads, tokCalls, notTry>>

TryNext ==
    \/ CatchEval
    \/ CatchTest
    \/ CatchBind
    \/ CatchPrint
    \/ CatchReturn
    \/ MainCallWrap
    \/ WrapEval
    \/ WrapTest
    \/ WrapPropagate
    \/ WrapBind
    \/ WrapReturnOk
    \/ MainTest
    \/ MainBind
    \/ MainPrint
    \/ MainReturn

SpecTry == TryInit /\ [][TryNext]_vars

-----------------------------------------------------------------------------
\* control is in wrap() or past it
PastWrapPcs == {"p30", "p31", "p32", "p35", "done"}

PastWrap == tunit = "try_propagate" /\ tpc \in PastWrapPcs

\* C3: in try_propagate.c, when fail() returns an error e ("boom"), wrap()
\* returns at once a result whose discriminant is error and whose error is
\* e, no remaining statement of wrap runs (x is never bound, err_i32_str_ok
\* is never called), main's handler receives that e and prints it exactly
\* once, and no .value field is read anywhere along the chain.
C3_Propagate ==
    (tunit = "try_propagate" /\ ~failRes.ok) =>
        /\ x = <<>>
        /\ tokCalls = 0
        /\ tpc \notin {"w23", "w24"}
        /\ \A r \in treads : r.field # "value"
        /\ PastWrap => try1 = ErrI32StrErr(failRes.err)
        /\ tpc \in {"p32", "p35", "done"} => err = failRes.err
        /\ tpc \in {"p35", "done"} => tout = <<failRes.err>>
        /\ tpc \notin {"p35", "done"} => tout = <<>>

\* try_propagate.c has run to its end on the error of the source: "boom"
\* went through wrap() and was printed once
C3_Witness ==
    /\ tunit = "try_propagate"
    /\ failRes = Fail
    /\ tpc = "done"
    /\ try1 = ErrI32StrErr("boom")
    /\ tout = <<"boom">>

\* the sites control has passed the test of
TestedSites ==
    CASE tpc \in {"c23", "c24", "c27"}  -> {"catch_main"}
      [] tpc \in {"w22r", "w23", "w24"} -> {"wrap"}
      [] PastWrap /\ tpc # "p30"        -> {"wrap", "prop_main"}
      [] tpc = "p30"                    -> {"wrap"}
      [] tpc = "done" /\ tunit = "try_catch" -> {"catch_main"}
      [] OTHER                          -> {}

\* the sites whose callee has been called
EvaluatedSites ==
    CASE tpc = "c21" -> {}
      [] tpc = "p29" -> {}
      [] tpc = "w21" -> {"prop_main"}
      [] tunit = "try_catch" -> {"catch_main"}
      [] OTHER -> {"wrap", "prop_main"}

\* C4: for every result a callee returns, each try site evaluates the callee
\* exactly once into its temporary and tests `ok` exactly once, .value is
\* read only when ok is true and .err only when ok is false; on success the
\* propagate site of wrap() binds the value and returns success carrying it,
\* and the handle sites of main run no handler statement and print nothing.
C4_TrySites ==
    tunit \in {"try_catch", "try_propagate"} =>
        /\ \A site \in Sites :
              /\ tevals[site] = IF site \in EvaluatedSites THEN 1 ELSE 0
              /\ ttests[site] = IF site \in TestedSites THEN 1 ELSE 0
        /\ tpc = "done" => /\ EvaluatedSites = SitesOf(tunit)
                           /\ TestedSites = SitesOf(tunit)
        /\ \A r \in treads : /\ r.field = "value" => r.ok
                             /\ r.field = "err" => ~r.ok
        /\ failRes.ok =>
              /\ err = "unbound"
              /\ tout = <<>>
              /\ tpc \notin {"c23", "c24", "p31", "p32", "w22r"}
              /\ (tunit = "try_propagate" /\ tpc \in {"w24"} \cup PastWrapPcs)
                    => x = <<failRes.value>>
              /\ (tunit = "try_propagate" /\ PastWrap)
                    => try1 = ErrI32StrOk(failRes.value)

\* try_propagate.c has run to its end on a success: wrap() bound the value
\* and returned it, and main printed nothing
C4_Witness ==
    /\ tunit = "try_propagate"
    /\ failRes = ErrI32StrOk(MaxVal)
    /\ tpc = "done"
    /\ x = <<MaxVal>>
    /\ try1 = ErrI32StrOk(MaxVal)
    /\ treads = {ReadOf("wrap", "value", failRes)}
    /\ tout = <<>>

(***************************************************************************)
(* function_arrays.c                                                       *)
(*                                                                         *)
(* Memory is a set of array objects; a pointer is an object and an offset  *)
(* in it, a slice_i32 is a pointer and a length.                           *)
(***************************************************************************)
\* int32_t arr[3]; int32_t s_data[3];
ArrLen == 3

Ptr(obj, off) == [obj |-> obj, off |-> off]

\* typedef struct { int32_t* data; size_t len; } slice_i32;
SliceI32(data, len) == [data |-> data, len |-> len]

\* sl.data[i]
Load(m, sl, i) == m[sl.data.obj][sl.data.off + i + 1]

\* sl.data[i] = v
Store(m, sl, i, v) ==
    [m EXCEPT ![sl.data.obj][sl.data.off + i + 1] = v]

\* first(): return nums[0];  (the array parameter is a pointer)
First(m, numsPtr) == m[numsPtr.obj][numsPtr.off + 1]

\* make3(): return (arrret_arr3_i32){ .value = {7, 8, 9} };
Make3 == [value |-> <<7, 8, 9>>]

\* id_slice(): return nums;
IdSlice(numsArg) == numsArg

\* every slice over the two arrays: any backing storage, any length
AnySlice ==
    {SliceI32(Ptr(o, off), len) :
        o \in {"arr", "s_data"}, off \in 0..ArrLen, len \in 0..ArrLen}

ValidSlices == {sl \in AnySlice : sl.data.off + sl.len <= ArrLen}

\* either main() of function_arrays.c from its start, or the call of line 34
\* on any slice, followed by stores through the two slices
SliceInit ==
    /\ smode \in {"main", "any"}
    /\ IF smode = "main"
       THEN /\ spc = "L30"
            /\ mem = [o \in {"arr", "s_data"} |-> Rep(ArrLen, "undef")]
            /\ s = "unset"
       ELSE /\ spc = "L34"
            /\ mem = [o \in {"arr", "s_data"} |->
                         IF o = "arr" THEN <<7, 8, 9>> ELSE <<4, 5, 6>>]
            /\ s \in ValidSlices
    /\ s2 = "unset"
    /\ sout = <<>>
    /\ lastStore = [via |-> "none"]
    /\ IdleBut("slice")

\* 30: memcpy(arr, (make3()).value, sizeof(arr));
FaMemcpy ==
    /\ spc = "L30"
    /\ mem' = [mem EXCEPT !["arr"] = Make3.value]
    /\ spc' = "L31"
    /\ UNCHANGED <<smode, s, s2, sout, lastStore, notSlice>>

\* 31: printf("%d\n", (int)first(arr));
FaPrintFirst ==
    /\ spc = "L31"
    /\ sout' = Append(sout, First(mem, Ptr("arr", 0)))
    /\ spc' = "L32"
    /\ UNCHANGED <<smode, mem, s, s2, lastStore, notSlice>>

\* 32: int32_t s_data[3] = {4, 5, 6};
FaDeclData ==
    /\ spc = "L32"
    /\ mem' = [mem EXCEPT !["s_data"] = <<4, 5, 6>>]
    /\ spc' = "L33"
    /\ UNCHANGED <<smode, s, s2, sout, lastStore, notSlice>>

\* 33: slice_i32 s = { s_data, 3 };
FaDeclSlice ==
    /\ spc = "L33"
    /\ s' = SliceI32(Ptr("s_data", 0), 3)
    /\ spc' = "L34"
    /\ UNCHANGED <<smode, mem, s2, sout, lastStore, notSlice>>

\* a callee that returns a copy of the elements in storage of its own
FaCallIdSliceCopies ==
    /\ spc = "L34"
    /\ mem' = [o \in DOMAIN mem \cup {"copy"} |->
                  IF o = "copy" THEN [i \in 1..s.len |-> Load(mem, s, i - 1)]
                  ELSE mem[o]]
    /\ s2' = SliceI32(Ptr("copy", 0), s.len)
    /\ spc' = IF smode = "main" THEN "L35" ELSE "stores"
    /\ UNCHANGED <<smode, s, sout, lastStore, notSlice>>

\* 34: slice_i32 s2 = id_slice(s);
FaCallIdSlice ==
    /\ spc = "L34"
    /\ s2' = IdSlice(s)
    /\ spc' = IF smode = "main" THEN "L35" ELSE "stores"
    /\ UNCHANGED <<smode, mem, s, sout, lastStore, notSlice>>

\* 35: printf("%d\n", (int)s2.data[1]);
FaPrintElem ==
    /\ spc = "L35"
    /\ sout' = Append(sout, Load(mem, s2, 1))
    /\ spc' = "L36"
    /\ UNCHANGED <<smode, mem, s, s2, lastStore, notSlice>>

\* 36: return 0;
FaReturn ==
    /\ spc = "L36"
    /\ spc' = "done"
    /\ UNCHANGED <<smode, mem, s, s2, sout, lastStore, notSlice>>

\* after the call: via.data[i] = v, through s, through s2 or through the
\* backing array itself
FaStore ==
    /\ spc = "stores"
    /\ \E via \in {"s", "s2", "backing"}, i \in 0..(ArrLen - 1),
          v \in 0..MaxStore :
          /\ i < s.len
          /\ mem' = CASE via = "s"  -> Store(mem, s, i, v)
                      [] via = "s2" -> Store(mem, s2, i, v)
                      [] OTHER      ->
                           [mem EXCEPT ![s.data.obj][s.data.off + i + 1] = v]
          /\ lastStore' = [via |-> via, i |-> i, v |-> v, before |-> mem]
    /\ UNCHANGED <<smode, spc, s, s2, sout, notSlice>>

SliceNext ==
    \/ FaMemcpy
    \/ FaPrintFirst
    \/ FaDeclData
    \/ FaDeclSlice
    \/ FaCallIdSlice
    \/ FaPrintElem
    \/ FaReturn
    \/ FaStore

SpecSlice == SliceInit /\ [][SliceNext]_vars

-----------------------------------------------------------------------------
\* the call of line 34 has returned
Returned == spc \in {"L35", "L36", "done", "stores"}

\* C6: for every slice s, id_slice(s) returns a slice whose pointer and
\* length equal those of s, and no element is copied: after
\* s2 = id_slice(s) a write through s2.data[i] is visible through s.data[i]
\* and through the backing array, and the other way round, for every
\* i < len; in function_arrays.c the read s2.data[1] yields 5.
C6_IdSliceAliases ==
    /\ Returned =>
          /\ s2.data = s.data
          /\ s2.len = s.len
          /\ DOMAIN mem = {"arr", "s_data"}
    /\ (spc = "stores" /\ lastStore.via # "none") =>
          LET i == lastStore.i
              v == lastStore.v
          IN  /\ Load(mem, s, i) = v
              /\ Load(mem, s2, i) = v
              /\ mem[s.data.obj][s.data.off + i + 1] = v
              \* and nothing but that one element has changed
              /\ \A o \in DOMAIN mem : \A k \in 1..ArrLen :
                    (o # s.data.obj \/ k # s.data.off + i + 1)
                       => mem[o][k] = lastStore.before[o][k]
    /\ (smode = "main" /\ spc \in {"L36", "done"}) => sout = <<7, 5>>

\* a store through s2 has been read back through s, on a slice that starts
\* inside its backing array
C6_Witness ==
    /\ spc = "stores"
    /\ s.data = Ptr("s_data", 1) /\ s.len = 2
    /\ lastStore.via = "s2" /\ lastStore.i = 1 /\ lastStore.v = 0
    /\ Load(mem, s, 1) = 0
    /\ mem["s_data"][3] = 0

(***************************************************************************)
(* parallel.c, parallel_block_bench.c, toyhash_parallel.c                  *)
(*                                                                         *)
(* main() and the threads it starts.  A thread is named by the slot of the *)
(* pthread_create that started it; a handle of __par_threads holds that    *)
(* name, or Uninit while no pthread_create has written it.                 *)
(***************************************************************************)
ParUnits == {"parallel", "parallel_block_bench", "toyhash_parallel"}

\* int32_t nums[4] = {1, 2, 3, 4};  (parallel.c 23)
NumsLen == 4
Nums == <<1, 2, 3, 4>>

\* void (*__par_fns[N])(void) = { ... };  the callees, in slot order
ParFns(u) ==
    CASE u = "parallel" -> <<"show_a", "show_b">>
      [] u = "parallel_block_bench" -> <<"work1", "work2", "work3", "work4">>
      [] u = "toyhash_parallel" ->
           <<"worker1", "worker2", "worker3", "worker4">>

\* pthread_t __par_threads[N];
ParN(u) == Len(ParFns(u))

Slots(u) == 0..(ParN(u) - 1)

Uninit == -1

\* printf("%d\n", (int)v): the decimal digits of v >= 0
Digit(d) == <<"0", "1", "2", "3", "4", "5", "6", "7", "8", "9">>[d + 1]

RECURSIVE Fmt(_)
Fmt(v) == IF v < 10 THEN Digit(v) ELSE Fmt(v \div 10) \o Digit(v % 10)

\* the line a callee prints: show_a and show_b print a constant; work1..4
\* print the sum of 0..10^9-1; worker1..4 print the hash their loops leave
\* in h (2500 x 1000 rounds of h = (h*31 + i + r) % 2147483647 from the seeds
\* 7, 11, 13, 17)
CalleeText(c) ==
    CASE c = "show_a" -> Fmt(100)
      [] c = "show_b" -> Fmt(200)
      [] c \in {"work1", "work2", "work3", "work4"} -> "499999999500000000"
      [] c = "worker1" -> "276191082"
      [] c = "worker2" -> "1035611039"
      [] c = "worker3" -> "341579194"
      [] c = "worker4" -> "1100999151"
      [] OTHER -> "?"

\* the spawn and join steps with a join after each spawn
ParStmtsSerial(u) ==
    [k \in 1..(2 * ParN(u)) |->
        IF k % 2 = 1 THEN [op |-> "create", slot |-> (k - 1) \div 2]
        ELSE [op |-> "join", slot |-> (k - 2) \div 2]]

\* the spawn and join steps of main(), in order: pthread_create on slots
\* 0..N-1, then pthread_join on slots 0..N-1
ParStmts(u) ==
    [k \in 1..(2 * ParN(u)) |->
        IF k <= ParN(u) THEN [op |-> "create", slot |-> k - 1]
        ELSE [op |-> "join", slot |-> k - 1 - ParN(u)]]

\* the statement main() is at in the block
Stmt == ParStmts(punit)[mk]

\* main() after the statement it is at
AfterStmt ==
    /\ mk' = IF mk < Len(ParStmts(punit)) THEN mk + 1 ELSE mk
    /\ mpc' = IF mk < Len(ParStmts(punit)) THEN "par_stmt" ELSE "return"

\* the frame of main(), which holds __par_fns and __par_threads, is live
FrameLive == mpc \notin {"returned", "exited"}

\* the process runs: it has neither exited nor been killed
Running == mpc \notin {"exited", "crashed"}

\* the iterations a team thread gets of the loop: the static schedule, the
\* indices in blocks, the blocks in thread order
OmpChunk(t) == {k \in 0..(NumsLen - 1) : (k * OmpTeam) \div NumsLen = t}

TeamIds == 0..(OmpTeam - 1)

\* the least index of the chunk of t above `after`, or NumsLen when none
OmpNextIdx(t, after) ==
    LET rest == {k \in OmpChunk(t) : k > after}
    IN  IF rest = {} THEN NumsLen
        ELSE CHOOSE k \in rest : \A j \in rest : k <= j

\* parallel.c starts at its loop, built with or without OpenMP; the bench
\* units start at their task-parallel block
ParInit ==
    /\ punit \in ParUnits
    /\ omp \in BOOLEAN
    /\ punit # "parallel" => omp = FALSE
    /\ mpc = IF punit = "parallel" THEN "for_test" ELSE "par_decl"
    /\ mk = 1
    /\ i0 = 0
    /\ n = 0
    /\ nums = IF punit = "parallel" THEN Nums ELSE <<>>
    /\ team = [t \in TeamIds |-> [pc |-> "idle", i |-> 0, n |-> 0]]
    /\ par_threads = [k \in Slots(punit) |-> Uninit]
    /\ par_fns = [k \in Slots(punit) |-> "unset"]
    /\ tst = [k \in Slots(punit) |-> "none"]
    /\ arg = [k \in Slots(punit) |-> Uninit]
    /\ fn = [k \in Slots(punit) |-> "unset"]
    /\ out = <<>>
    /\ iterLog = <<>>
    /\ createLog = <<>>
    /\ joinLog = <<>>
    /\ derefs = {}
    /\ invoked = {}
    /\ IdleBut("par")

\* parallel.c 26, the pragma ignored: for (size_t __i0 = 0; __i0 < 4; __i0++)
ForTest ==
    /\ mpc = "for_test"
    /\ ~omp
    /\ mpc' = IF i0 < NumsLen THEN "for_bind" ELSE "par_decl"
    /\ UNCHANGED <<punit, omp, mk, i0, n, nums, team, par_threads, par_fns,
                   tst, arg, fn, out, iterLog, createLog, joinLog, derefs,
                   invoked, notPar>>

\* parallel.c 27: int32_t n = nums[__i0];
ForBind ==
    /\ mpc = "for_bind"
    /\ n' = nums[i0 + 1]
    /\ mpc' = "for_print"
    /\ UNCHANGED <<punit, omp, mk, i0, nums, team, par_threads, par_fns,
                   tst, arg, fn, out, iterLog, createLog, joinLog, derefs,
                   invoked, notPar>>

\* parallel.c 28: printf("%d\n", (int)n);  and the loop's __i0++
ForPrint ==
    /\ mpc = "for_print"
    /\ out' = Append(out, [src |-> "main", text |-> Fmt(n)])
    /\ iterLog' = Append(iterLog, [idx |-> i0, val |-> n, by |-> 0])
    /\ i0' = i0 + 1
    /\ mpc' = "for_test"
    /\ UNCHANGED <<punit, omp, mk, n, nums, team, par_threads, par_fns, tst,
                   arg, fn, createLog, joinLog, derefs, invoked, notPar>>

\* parallel.c 25-26, the pragma honoured: #pragma omp parallel for starts a
\* team, main() its thread 0, and hands each thread its iterations
OmpFork ==
    /\ mpc = "for_test"
    /\ omp
    /\ team' = [t \in TeamIds |->
                  IF OmpNextIdx(t, -1) < NumsLen
                  THEN [pc |-> "bind", i |-> OmpNextIdx(t, -1), n |-> 0]
                  ELSE [pc |-> "barrier", i |-> NumsLen, n |-> 0]]
    /\ mpc' = "omp_region"
    /\ UNCHANGED <<punit, omp, mk, i0, n, nums, par_threads, par_fns, tst,
                   arg, fn, out, iterLog, createLog, joinLog, derefs,
                   invoked, notPar>>

\* parallel.c 27 in team thread t: int32_t n = nums[__i0];
OmpBind(t) ==
    /\ Running
    /\ team[t].pc = "bind"
    /\ team' = [team EXCEPT ![t].n = nums[team[t].i + 1], ![t].pc = "print"]
    /\ UNCHANGED <<punit, omp, mpc, mk, i0, n, nums, par_threads, par_fns,
                   tst, arg, fn, out, iterLog, createLog, joinLog, derefs,
                   invoked, notPar>>

\* parallel.c 28 in team thread t: printf("%d\n", (int)n);  and its next
\* iteration
OmpPrint(t) ==
    /\ Running
    /\ team[t].pc = "print"
    /\ out' = Append(out, [src |-> "main", text |-> Fmt(team[t].n)])
    /\ iterLog' = Append(iterLog,
                         [idx |-> team[t].i, val |-> team[t].n, by |-> t])
    /\ team' = [team EXCEPT
                   ![t].i = OmpNextIdx(t, team[t].i),
                   ![t].pc = IF OmpNextIdx(t, team[t].i) < NumsLen
                             THEN "bind" ELSE "barrier"]
    /\ UNCHANGED <<punit, omp, mpc, mk, i0, n, nums, par_threads, par_fns,
                   tst, arg, fn, createLog, joinLog, derefs, invoked,
                   notPar>>

\* a loop end that does not wait for the team (nowait)
OmpNoBarrier ==
    /\ mpc = "omp_region"
    /\ team[0].pc = "barrier"
    /\ mpc' = "par_decl"
    /\ UNCHANGED <<punit, omp, mk, i0, n, nums, team, par_threads, par_fns,
                   tst, arg, fn, out, iterLog, createLog, joinLog, derefs,
                   invoked, notPar>>

\* parallel.c 29-30: the barrier that ends the loop of the team; main() goes
\* on when every thread of the team has reached it
OmpBarrier ==
    /\ mpc = "omp_region"
    /\ \A t \in TeamIds : team[t].pc = "barrier"
    /\ mpc' = "par_decl"
    /\ UNCHANGED <<punit, omp, mk, i0, n, nums, team, par_threads, par_fns,
                   tst, arg, fn, out, iterLog, createLog, joinLog, derefs,
                   invoked, notPar>>

\* pthread_t __par_threads[N]; void (*__par_fns[N])(void) = { ... };
ParDecl ==
    /\ mpc = "par_decl"
    /\ par_threads' = [k \in Slots(punit) |-> Uninit]
    /\ par_fns' = [k \in Slots(punit) |-> ParFns(punit)[k + 1]]
    /\ mpc' = "par_stmt"
    /\ UNCHANGED <<punit, omp, mk, i0, n, nums, team, tst, arg, fn, out,
                   iterLog, createLog, joinLog, derefs, invoked, notPar>>

\* pthread_create(&__par_threads[k], NULL, __1im_par_runner,
\*                (void*)&__par_fns[k]);
\* it starts the thread and writes its handle, or fails (EAGAIN) and leaves
\* the handle as it was; main() does not look at what it returns
PthreadCreate ==
    /\ mpc = "par_stmt"
    /\ Stmt.op = "create"
    /\ \E ok \in BOOLEAN :
          /\ IF ok
             THEN /\ par_threads' = [par_threads EXCEPT ![Stmt.slot] = Stmt.slot]
                  /\ tst' = [tst EXCEPT ![Stmt.slot] = "started"]
                  /\ arg' = [arg EXCEPT ![Stmt.slot] = Stmt.slot]
             ELSE UNCHANGED <<par_threads, tst, arg>>
          /\ createLog' = Append(createLog, [slot |-> Stmt.slot, ok |-> ok])
    /\ AfterStmt
    /\ UNCHANGED <<punit, omp, i0, n, nums, team, par_fns, fn, out, iterLog,
                   joinLog, derefs, invoked, notPar>>

\* the handle of slot k names a thread that was started and is not joined
Joinable(k) == par_threads[k] # Uninit /\ tst[par_threads[k]] # "joined"

\* pthread_join(__par_threads[k], NULL) on the handle of a started thread:
\* main() waits until the thread has returned
PthreadJoin ==
    /\ mpc = "par_stmt"
    /\ Stmt.op = "join"
    /\ Joinable(Stmt.slot)
    /\ tst[par_threads[Stmt.slot]] = "exited"
    /\ tst' = [tst EXCEPT ![par_threads[Stmt.slot]] = "joined"]
    /\ joinLog' = Append(joinLog, [slot |-> Stmt.slot, init |-> TRUE,
                                   target |-> par_threads[Stmt.slot]])
    /\ AfterStmt
    /\ UNCHANGED <<punit, omp, i0, n, nums, team, par_threads, par_fns, arg,
                   fn, out, iterLog, createLog, derefs, invoked, notPar>>

\* pthread_join on a handle no pthread_create wrote, or whose thread is
\* joined already, is undefined.  What the build does: the call returns an
\* error (ESRCH) ...
JoinInvalidReturns ==
    /\ mpc = "par_stmt"
    /\ Stmt.op = "join"
    /\ ~Joinable(Stmt.slot)
    /\ joinLog' = Append(joinLog,
                         [slot |-> Stmt.slot,
                          init |-> par_threads[Stmt.slot] # Uninit,
                          target |-> Uninit])
    /\ AfterStmt
    /\ UNCHANGED <<punit, omp, i0, n, nums, team, par_threads, par_fns, tst,
                   arg, fn, out, iterLog, createLog, derefs, invoked,
                   notPar>>

\* ... or it dereferences the stale handle and the process is killed ...
JoinInvalidCrashes ==
    /\ mpc = "par_stmt"
    /\ Stmt.op = "join"
    /\ ~Joinable(Stmt.slot)
    /\ joinLog' = Append(joinLog,
                         [slot |-> Stmt.slot,
                          init |-> par_threads[Stmt.slot] # Uninit,
                          target |-> Uninit])
    /\ mpc' = "crashed"
    /\ UNCHANGED <<punit, omp, mk, i0, n, nums, team, par_threads, par_fns,
                   tst, arg, fn, out, iterLog, createLog, derefs, invoked,
                   notPar>>

\* ... or it waits for ever ...
JoinInvalidHangs ==
    /\ mpc = "par_stmt"
    /\ Stmt.op = "join"
    /\ ~Joinable(Stmt.slot)
    /\ joinLog' = Append(joinLog,
                         [slot |-> Stmt.slot,
                          init |-> par_threads[Stmt.slot] # Uninit,
                          target |-> Uninit])
    /\ mpc' = "hung"
    /\ UNCHANGED <<punit, omp, mk, i0, n, nums, team, par_threads, par_fns,
                   tst, arg, fn, out, iterLog, createLog, derefs, invoked,
                   notPar>>

\* ... or the stale bytes are the handle of another thread of the block,
\* and the call joins that thread
JoinInvalidAliases ==
    /\ mpc = "par_stmt"
    /\ Stmt.op = "join"
    /\ ~Joinable(Stmt.slot)
    /\ \E t \in Slots(punit) :
          /\ t # Stmt.slot
          /\ tst[t] = "exited"
          /\ tst' = [tst EXCEPT ![t] = "joined"]
          /\ joinLog' = Append(joinLog,
                               [slot |-> Stmt.slot,
                                init |-> par_threads[Stmt.slot] # Uninit,
                                target |-> t])
    /\ AfterStmt
    /\ UNCHANGED <<punit, omp, i0, n, nums, team, par_threads, par_fns, arg,
                   fn, out, iterLog, createLog, derefs, invoked, notPar>>

\* return 0;  the frame of main() is gone
ParReturn ==
    /\ mpc = "return"
    /\ mpc' = "returned"
    /\ UNCHANGED <<punit, omp, mk, i0, n, nums, team, par_threads, par_fns,
                   tst, arg, fn, out, iterLog, createLog, joinLog, derefs,
                   invoked, notPar>>

\* exit(): the process ends, and every thread with it
ProcessExit ==
    /\ mpc = "returned"
    /\ mpc' = "exited"
    /\ UNCHANGED <<punit, omp, mk, i0, n, nums, team, par_threads, par_fns,
                   tst, arg, fn, out, iterLog, createLog, joinLog, derefs,
                   invoked, notPar>>

\* __1im_par_runner 9: void (*fn)(void) = *(void (**)(void))arg;
\* a read through arg after the frame of main() is gone yields anything
RunnerLoad(t) ==
    /\ Running
    /\ tst[t] = "started"
    /\ \E c \in {par_fns[k] : k \in Slots(punit)} \cup {"garbage"} :
          /\ FrameLive => c = par_fns[arg[t]]
          /\ fn' = [fn EXCEPT ![t] = c]
    /\ derefs' = derefs \cup {[thread |-> t, slot |-> arg[t],
                               live |-> FrameLive]}
    /\ tst' = [tst EXCEPT ![t] = "loaded"]
    /\ UNCHANGED <<punit, omp, mpc, mk, i0, n, nums, team, par_threads,
                   par_fns, arg, out, iterLog, createLog, joinLog, invoked,
                   notPar>>

\* __1im_par_runner 9: fn();  the call, and the callee up to its printf; a
\* call through a pointer that is no function kills the process
RunnerCall(t) ==
    /\ Running
    /\ tst[t] = "loaded"
    /\ IF fn[t] = "garbage"
       THEN /\ mpc' = "crashed"
            /\ UNCHANGED <<invoked, tst>>
       ELSE /\ invoked' = invoked \cup {[thread |-> t, callee |-> fn[t]]}
            /\ tst' = [tst EXCEPT ![t] = "running"]
            /\ UNCHANGED mpc
    /\ UNCHANGED <<punit, omp, mk, i0, n, nums, team, par_threads, par_fns,
                   arg, fn, out, iterLog, createLog, joinLog, derefs,
                   notPar>>

\* the printf that ends every callee: its one observable effect
CalleePrint(t) ==
    /\ Running
    /\ tst[t] = "running"
    /\ out' = Append(out, [src |-> fn[t], text |-> CalleeText(fn[t])])
    /\ tst' = [tst EXCEPT ![t] = "printed"]
    /\ UNCHANGED <<punit, omp, mpc, mk, i0, n, nums, team, par_threads,
                   par_fns, arg, fn, iterLog, createLog, joinLog, derefs,
                   invoked, notPar>>

\* __1im_par_runner 9: return NULL;
RunnerReturn(t) ==
    /\ Running
    /\ tst[t] = "printed"
    /\ tst' = [tst EXCEPT ![t] = "exited"]
    /\ UNCHANGED <<punit, omp, mpc, mk, i0, n, nums, team, par_threads,
                   par_fns, arg, fn, out, iterLog, createLog, joinLog,
                   derefs, invoked, notPar>>

ParNext ==
    \/ ForTest
    \/ ForBind
    \/ ForPrint
    \/ OmpFork
    \/ \E t \in TeamIds : OmpBind(t)
    \/ \E t \in TeamIds : OmpPrint(t)
    \/ OmpBarrier
    \/ ParDecl
    \/ PthreadCreate
    \/ PthreadJoin
    \/ JoinInvalidReturns
    \/ JoinInvalidCrashes
    \/ JoinInvalidHangs
    \/ JoinInvalidAliases
    \/ ParReturn
    \/ ProcessExit
    \/ \E t \in Slots(punit) : RunnerLoad(t)
    \/ \E t \in Slots(punit) : RunnerCall(t)
    \/ \E t \in Slots(punit) : CalleePrint(t)
    \/ \E t \in Slots(punit) : RunnerReturn(t)

SpecPar == ParInit /\ [][ParNext]_vars

-----------------------------------------------------------------------------
\* the callees of the block of the unit
Callees == {ParFns(punit)[k] : k \in 1..ParN(punit)}

\* the lines of out a callee printed, and those the loop of main() printed
TaskLines(c) == {j \in 1..Len(out) : out[j].src = c}
LoopLines == {j \in 1..Len(out) : out[j].src = "main"}

\* main() is past the block: at its return 0 or after it
PastBlock == mpc \in {"return", "returned", "exited"}

\* every pthread_create issued so far started its thread
AllStarted == \A j \in 1..Len(createLog) : createLog[j].ok

\* C1: in every unit with a task-parallel block, in every interleaving, each
\* of the N spawned calls has printed its line before main() goes on to its
\* return 0, and exactly N task lines are printed in all: every callee
\* prints exactly once, none is skipped and none runs twice.
C1_JoinBarrier ==
    punit \in ParUnits =>
        /\ \A c \in Callees : Cardinality(TaskLines(c)) <= 1
        /\ PastBlock => \A c \in Callees : Cardinality(TaskLines(c)) = 1
        /\ PastBlock => Len(out) - Cardinality(LoopLines) = ParN(punit)

\* what does hold of the block: the join barrier, in the executions in
\* which every pthread_create started its thread
JoinBarrierWhenStarted ==
    (punit \in ParUnits /\ AllStarted) =>
        /\ \A c \in Callees : Cardinality(TaskLines(c)) <= 1
        /\ PastBlock => \A c \in Callees : Cardinality(TaskLines(c)) = 1
        /\ PastBlock => Len(out) - Cardinality(LoopLines) = ParN(punit)
        /\ mpc \notin {"crashed", "hung"}

\* C2: the spawning thread issues the N pthread_create calls in ascending
\* slot order 0..N-1, slot k holding the k-th callee of the function
\* reference array, and issues no pthread_join until all N pthread_create
\* calls have been issued.
C2_SpawnOrder ==
    punit \in ParUnits =>
        /\ Len(createLog) <= ParN(punit)
        /\ \A j \in 1..Len(createLog) : createLog[j].slot = j - 1
        /\ \A t \in Slots(punit) :
              tst[t] # "none" => /\ arg[t] = t
                                 /\ par_threads[t] = t
                                 /\ par_fns[arg[t]] = ParFns(punit)[t + 1]
        /\ (mpc = "par_stmt" /\ Stmt.op = "join") =>
              Len(createLog) = ParN(punit)
        /\ joinLog # <<>> => Len(createLog) = ParN(punit)

\* all four tasks of toyhash_parallel.c are started and none has finished,
\* and main() is at its first pthread_join
C2_Witness ==
    /\ punit = "toyhash_parallel"
    /\ \A t \in Slots(punit) : tst[t] \in {"started", "loaded", "running"}
    /\ mpc = "par_stmt" /\ Stmt = [op |-> "join", slot |-> 0]
    /\ joinLog = <<>>

\* main() is past the loop of parallel.c
PastLoop == mpc \notin {"for_test", "for_bind", "for_print", "omp_region"}

\* C5 as stated: the annotated loop of parallel.c introduces no threads:
\* its body runs on the spawning thread for the indices 0,1,2,3 in ascending
\* order, each once with the element bound by value, so 1,2,3,4 are printed
\* in that order and nums is unchanged, and all four effects come before the
\* first pthread_create.
C5_Original ==
    punit = "parallel" =>
        /\ nums = Nums
        /\ \A j \in 1..Len(iterLog) :
              /\ iterLog[j].by = 0
              /\ iterLog[j].idx = j - 1
              /\ iterLog[j].val = Nums[j]
        /\ \A j \in LoopLines : j <= NumsLen /\ out[j].text = Fmt(j)
        /\ PastLoop => Len(iterLog) = NumsLen
        /\ createLog # <<>> => Cardinality(LoopLines) = NumsLen

\* C5, amended: in every build the body of the annotated loop of parallel.c
\* runs for each index 0,1,2,3 exactly once with the element bound by
\* value, nums is unchanged, and all four effects come before the first
\* pthread_create; in a build that ignores the pragma the loop introduces
\* no threads, the body runs on the spawning thread in ascending order and
\* 1,2,3,4 are printed in that order.  (A build with OpenMP runs the loop by
\* a team of threads, and the order of the four lines is not fixed.)
C5_DataParallelLoop ==
    punit = "parallel" =>
        /\ nums = Nums
        /\ \A j \in 1..Len(iterLog) :
              /\ iterLog[j].val = Nums[iterLog[j].idx + 1]
              /\ out[j] = [src |-> "main", text |-> Fmt(iterLog[j].val)]
              /\ \A k \in 1..Len(iterLog) :
                    iterLog[k].idx = iterLog[j].idx => k = j
        /\ LoopLines = 1..Len(iterLog)
        /\ PastLoop => {iterLog[j].idx : j \in 1..Len(iterLog)}
                          = 0..(NumsLen - 1)
        /\ createLog # <<>> => Cardinality(LoopLines) = NumsLen
        /\ ~omp =>
              /\ mpc # "omp_region"
              /\ \A j \in 1..Len(iterLog) :
                    /\ iterLog[j].by = 0
                    /\ iterLog[j].idx = j - 1
                    /\ out[j].text = Fmt(j)

\* parallel.c built with OpenMP: the loop printed 3 first, all four lines
\* are out, and the first pthread_create has been issued
C5_Witness ==
    /\ punit = "parallel"
    /\ omp
    /\ Len(iterLog) = NumsLen
    /\ out[1].text = "3"
    /\ Len(createLog) = 1

\* C9: the trampoline of thread i reads only slot i of the slot array and
\* calls the callee stored there, once; no slot is written after its
\* initialisation; the slot array is live at every dereference, main() not
\* leaving the block before all joins have returned; so each of the N
\* callees is invoked by exactly one thread and none by two.
C9_Trampoline ==
    punit \in ParUnits =>
        /\ \A d \in derefs : d.slot = d.thread /\ d.live
        /\ \A t \in Slots(punit) :
              tst[t] \notin {"none", "started"} => fn[t] = ParFns(punit)[t + 1]
        /\ mpc # "par_decl" /\ PastLoop =>
              par_fns = [k \in Slots(punit) |-> ParFns(punit)[k + 1]]
        /\ PastBlock => Len(joinLog) = ParN(punit)
        /\ \A v, w \in invoked : v.callee = w.callee => v.thread = w.thread
        /\ PastBlock =>
              \A c \in Callees :
                 Cardinality({v \in invoked : v.callee = c}) = 1

\* what does hold of the trampoline in every execution: the slot each
\* thread reads, the callee it calls, the slot array it finds live
TrampolineSlots ==
    punit \in ParUnits =>
        /\ \A d \in derefs : d.slot = d.thread /\ d.live
        /\ \A t \in Slots(punit) :
              tst[t] \notin {"none", "started"} => fn[t] = ParFns(punit)[t + 1]
        /\ mpc # "par_decl" /\ PastLoop =>
              par_fns = [k \in Slots(punit) |-> ParFns(punit)[k + 1]]
        /\ \A v, w \in invoked : v.callee = w.callee => v.thread = w.thread
        /\ \A v \in invoked : v.callee = ParFns(punit)[v.thread + 1]
        /\ (PastBlock /\ AllStarted) =>
              \A c \in Callees :
                 Cardinality({v \in invoked : v.callee = c}) = 1

\* C10: every pthread_join is applied to a handle an earlier pthread_create
\* initialised, every handle is joined exactly once, also when a
\* pthread_create fails to start a thread; no join is performed on an
\* uninitialised handle, and main() always reaches its return 0.
C10_JoinsInitialised ==
    punit \in ParUnits =>
        /\ \A j \in 1..Len(joinLog) :
              /\ joinLog[j].init
              /\ joinLog[j].target = joinLog[j].slot
              /\ joinLog[j].slot = j - 1
        /\ PastBlock => Len(joinLog) = ParN(punit)
        /\ mpc \notin {"crashed", "hung"}

=============================================================================
